---- MODULE Spec2Model ----
(***************************************************************************)
(* Model of the budgeting app of src/app.jsx: the CSV import pipeline      *)
(* (parseCsv), the rule learner (handleCategoryChange), the live snapshot  *)
(* listeners and the authentication listener, over a document store with   *)
(* the collections transactions, rules and categories of one owner.        *)
(*                                                                         *)
(* Text (cell values, descriptions, dates, keywords, category names) is a  *)
(* sequence of one-character strings, so that trimming, lowercasing,       *)
(* substring search, splitting and number parsing are computed as the      *)
(* JavaScript code computes them.  A JavaScript number is a record         *)
(* [nan, v] with v the value in hundredths; the cells of the model carry   *)
(* at most two fraction digits and no exponent.                            *)
(***************************************************************************)
EXTENDS Integers, Sequences, FiniteSets, TLC

-----------------------------------------------------------------------------
(* Characters and JavaScript string primitives                             *)

DigitChars == <<"0", "1", "2", "3", "4", "5", "6", "7", "8", "9">>
UpperChars == <<"A", "B", "C", "D", "E", "F", "G", "H", "I", "J", "K", "L", "M",
                "N", "O", "P", "Q", "R", "S", "T", "U", "V", "W", "X", "Y", "Z">>
LowerChars == <<"a", "b", "c", "d", "e", "f", "g", "h", "i", "j", "k", "l", "m",
                "n", "o", "p", "q", "r", "s", "t", "u", "v", "w", "x", "y", "z">>
WhiteSpace == {" ", "\t"}

IsDigit(c) == \E i \in DOMAIN DigitChars : DigitChars[i] = c
DigitVal(c) == (CHOOSE i \in DOMAIN DigitChars : DigitChars[i] = c) - 1
DigitOf(n) == DigitChars[n + 1]

\* String.prototype.toLowerCase, character by character
LowerChar(c) ==
    IF \E i \in DOMAIN UpperChars : UpperChars[i] = c
    THEN LowerChars[CHOOSE i \in DOMAIN UpperChars : UpperChars[i] = c]
    ELSE c
toLowerCase(s) == [i \in DOMAIN s |-> LowerChar(s[i])]

\* String.prototype.trim
RECURSIVE trimStart(_)
trimStart(s) ==
    IF s # <<>> /\ Head(s) \in WhiteSpace THEN trimStart(Tail(s)) ELSE s
RECURSIVE trimEnd(_)
trimEnd(s) ==
    IF s # <<>> /\ s[Len(s)] \in WhiteSpace
    THEN trimEnd(SubSeq(s, 1, Len(s) - 1)) ELSE s
trim(s) == trimEnd(trimStart(s))

\* String.prototype.includes
includes(s, k) ==
    \E i \in 0..(Len(s) - Len(k)) : SubSeq(s, i + 1, i + Len(k)) = k

\* String.prototype.split(' '): cuts at every single space character
RECURSIVE split(_)
split(s) ==
    IF \E i \in DOMAIN s : s[i] = " "
    THEN LET i == CHOOSE j \in DOMAIN s :
                     s[j] = " " /\ \A l \in 1..(j - 1) : s[l] # " "
         IN <<SubSeq(s, 1, i - 1)>> \o split(SubSeq(s, i + 1, Len(s)))
    ELSE <<s>>
\* Array.prototype.join(' ')
RECURSIVE join(_)
join(a) ==
    IF a = <<>> THEN <<>>
    ELSE IF Len(a) = 1 THEN a[1]
    ELSE a[1] \o <<" ">> \o join(Tail(a))
\* Array.prototype.slice(0, 2)
slice02(a) == SubSeq(a, 1, IF Len(a) < 2 THEN Len(a) ELSE 2)
\* a || b on strings: the empty string is falsy
OrElse(a, b) == IF a # <<>> THEN a ELSE b

-----------------------------------------------------------------------------
(* JavaScript numbers, parseFloat and number-to-string                     *)

NaN == [nan |-> TRUE, v |-> 0]
Num(n) == [nan |-> FALSE, v |-> n]
isNaN(x) == x.nan
\* truthiness of a number: NaN and 0 are falsy
Truthy(x) == ~x.nan /\ x.v # 0
Neg(x) == IF x.nan THEN NaN ELSE Num(0 - x.v)

RECURSIVE DigitPrefix(_)
DigitPrefix(s) ==
    IF s # <<>> /\ IsDigit(Head(s)) THEN <<Head(s)>> \o DigitPrefix(Tail(s))
    ELSE <<>>
RECURSIVE IntVal(_)
IntVal(ds) ==
    IF ds = <<>> THEN 0
    ELSE 10 * IntVal(SubSeq(ds, 1, Len(ds) - 1)) + DigitVal(ds[Len(ds)])
Hundredths(fs) ==
    (IF Len(fs) >= 1 THEN 10 * DigitVal(fs[1]) ELSE 0)
    + (IF Len(fs) >= 2 THEN DigitVal(fs[2]) ELSE 0)

\* parseFloat: leading white space is skipped, then the longest prefix
\* [+-] digits [. digits] is the value; no digit at all gives NaN
parseFloat(s) ==
    LET t == trimStart(s)
        signed == t # <<>> /\ Head(t) \in {"-", "+"}
        u == IF signed THEN Tail(t) ELSE t
        ip == DigitPrefix(u)
        rest == SubSeq(u, Len(ip) + 1, Len(u))
        fp == IF rest # <<>> /\ Head(rest) = "." THEN DigitPrefix(Tail(rest))
              ELSE <<>>
        mag == 100 * IntVal(ip) + Hundredths(fp)
    IN IF ip = <<>> /\ fp = <<>> THEN NaN
       ELSE IF signed /\ Head(t) = "-" THEN Num(0 - mag) ELSE Num(mag)

\* String(amount).replace(/[^0-9.-]+/g, "")
stripNonNumeric(s) == SelectSeq(s, LAMBDA c : IsDigit(c) \/ c \in {".", "-"})

RECURSIVE NatToStr(_)
NatToStr(n) ==
    IF n < 10 THEN <<DigitOf(n)>> ELSE NatToStr(n \div 10) \o <<DigitOf(n % 10)>>
\* `${amount}`: Number::toString
NumToStr(x) ==
    IF x.nan THEN <<"N", "a", "N">>
    ELSE LET a == IF x.v < 0 THEN 0 - x.v ELSE x.v
             fr == a % 100
             frac == IF fr = 0 THEN <<>>
                     ELSE IF fr % 10 = 0 THEN <<".", DigitOf(fr \div 10)>>
                     ELSE <<".", DigitOf(fr \div 10), DigitOf(fr % 10)>>
         IN (IF x.v < 0 THEN <<"-">> ELSE <<>>) \o NatToStr(a \div 100) \o frac

-----------------------------------------------------------------------------
(* date-fns parseISO and format(.., 'yyyy-MM-dd'), for the calendar-date   *)
(* forms YYYY-MM-DD and YYYYMMDD; any other text is an Invalid Date, for   *)
(* which format throws a RangeError                                        *)

AllDigits(s) == \A i \in DOMAIN s : IsDigit(s[i])
IsLeap(y) == (y % 4 = 0 /\ y % 100 # 0) \/ y % 400 = 0
DaysIn(y, m) ==
    IF m = 2 THEN (IF IsLeap(y) THEN 29 ELSE 28)
    ELSE IF m \in {4, 6, 9, 11} THEN 30 ELSE 31
parseISO(s) ==
    LET ext == Len(s) = 10 /\ s[5] = "-" /\ s[8] = "-"
               /\ AllDigits(SubSeq(s, 1, 4)) /\ AllDigits(SubSeq(s, 6, 7))
               /\ AllDigits(SubSeq(s, 9, 10))
        bas == Len(s) = 8 /\ AllDigits(s)
        ys == SubSeq(s, 1, 4)
        ms == IF ext THEN SubSeq(s, 6, 7) ELSE SubSeq(s, 5, 6)
        ds == IF ext THEN SubSeq(s, 9, 10) ELSE SubSeq(s, 7, 8)
    IN IF (ext \/ bas) /\ IntVal(ms) \in 1..12
          /\ IntVal(ds) \in 1..DaysIn(IntVal(ys), IntVal(ms))
       THEN [valid |-> TRUE, y |-> ys, m |-> ms, d |-> ds]
       ELSE [valid |-> FALSE, y |-> <<>>, m |-> <<>>, d |-> <<>>]
format(dt) == dt.y \o <<"-">> \o dt.m \o <<"-">> \o dt.d

-----------------------------------------------------------------------------
(* The rule table `rules`: a JavaScript object {keyword: category}, kept   *)
(* as the sequence of its entries in insertion order                       *)

ObjHas(o, k) == \E i \in DOMAIN o : o[i].keyword = k
ObjGet(o, k) == o[CHOOSE i \in DOMAIN o : o[i].keyword = k].category
\* o[k] = v: a present key keeps its place, a new key goes last
ObjSet(o, k, v) ==
    IF ObjHas(o, k)
    THEN [i \in DOMAIN o |->
             IF o[i].keyword = k THEN [keyword |-> k, category |-> v] ELSE o[i]]
    ELSE Append(o, [keyword |-> k, category |-> v])

\* A property key that is a canonical array index ("0", "7", "12", not "07").
\* The array indices are the integers up to 2^32 - 2; the keys of up to nine
\* digits are all of them that the keywords of this model can spell.
MaxIndexDigits == 9
IsArrayIndex(k) ==
    /\ k # <<>>
    /\ AllDigits(k)
    /\ (Len(k) = 1 \/ k[1] # "0")
    /\ Len(k) <= MaxIndexDigits

\* for (const keyword in rules): the array-index keys in ascending numeric
\* order, then the other keys in insertion order
RECURSIVE AscendingIndexKeys(_)
AscendingIndexKeys(ks) ==
    IF ks = {} THEN <<>>
    ELSE LET m == CHOOSE k \in ks : \A l \in ks : IntVal(k) <= IntVal(l)
         IN <<m>> \o AscendingIndexKeys(ks \ {m})
\* a faulty variant: the keys in insertion order, array indices included
forInKeysInsertionOrder(o) == [i \in DOMAIN o |-> o[i].keyword]
forInKeys(o) ==
    LET keys == [i \in DOMAIN o |-> o[i].keyword]
    IN AscendingIndexKeys({keys[i] : i \in {j \in DOMAIN keys : IsArrayIndex(keys[j])}})
       \o SelectSeq(keys, LAMBDA k : ~IsArrayIndex(k))

-----------------------------------------------------------------------------
(* parseCsv: the row map and filter of the complete callback               *)

Uncategorized == <<"U", "n", "c", "a", "t", "e", "g", "o", "r", "i", "z", "e", "d">>

rowDate(row) == OrElse(row.Date, OrElse(row.TransactionDate, row.PostingDate))
rowDescription(row) ==
    OrElse(row.Description, OrElse(row.Payee, row.TransactionDetails))
rowAmount(row) ==
    LET amount == OrElse(row.Amount, OrElse(row.Debit, row.Credit))
    IN IF row.Debit # <<>> /\ Truthy(parseFloat(row.Debit))
       THEN Neg(parseFloat(row.Debit))
       ELSE IF row.Credit # <<>> /\ Truthy(parseFloat(row.Credit))
       THEN parseFloat(row.Credit)
       ELSE parseFloat(stripNonNumeric(amount))

\* the auto-categorization loop: the first key of the for-in order that the
\* lowercased description includes
Categorize(description, rules) ==
    LET lowerDescription == toLowerCase(description)
        keys == forInKeys(rules)
        hits == {i \in DOMAIN keys : includes(lowerDescription, keys[i])}
    IN IF hits = {} THEN Uncategorized
       ELSE ObjGet(rules, keys[CHOOSE i \in hits : \A j \in hits : i <= j])

\* format(parseISO(date), 'yyyy-MM-dd') throws on an Invalid Date
rowThrows(row) == rowDate(row) # <<>> /\ ~parseISO(rowDate(row)).valid
mapRow(row, rules) ==
    LET amount == rowAmount(row)
    IN [date |-> IF rowDate(row) # <<>> THEN format(parseISO(rowDate(row)))
                 ELSE <<>>,
        description |-> trim(rowDescription(row)),
        amount |-> IF isNaN(amount) THEN Num(0) ELSE amount,
        category |-> Categorize(rowDescription(row), rules),
        originalRow |-> row]
\* a faulty variant: the filter of line 185 without the description test
keepTxAnyDescription(tx) == ~isNaN(tx.amount)
keepTx(tx) == tx.description # <<>> /\ ~isNaN(tx.amount)
parseThrows(data) == \E i \in DOMAIN data : rowThrows(data[i])
parsedTransactions(data, rules) ==
    SelectSeq([i \in DOMAIN data |-> mapRow(data[i], rules)], keepTx)

\* `${date}-${description}-${amount}`
txIdentifier(tx) ==
    tx.date \o <<"-">> \o tx.description \o <<"-">> \o NumToStr(tx.amount)

batchSize == 50
\* the batch that starts at offset i (0-based) of the parsed list
batchAt(parsed, i) ==
    SubSeq(parsed, i + 1, IF i + batchSize < Len(parsed) THEN i + batchSize
                          ELSE Len(parsed))
\* getDocs(query(.., where('date', 'in', dates), where('userId', '==', uid)))
\* mapped to the set of identity strings
existingTxSet(col, batch, uid) ==
    LET dates == {batch[j].date : j \in DOMAIN batch}
    IN {txIdentifier(col[d]) :
           d \in {e \in DOMAIN col : col[e].date \in dates /\ col[e].userId = uid}}

-----------------------------------------------------------------------------
(* handleCategoryChange: the keyword of a learned rule                     *)

keywordCandidate(description) == join(slice02(split(toLowerCase(description))))
needsRule(rules, keyword, newCategory) ==
    keyword # <<>> /\ (~ObjHas(rules, keyword) \/ ObjGet(rules, keyword) = <<>>
                       \/ ObjGet(rules, keyword) # newCategory)
\* a faulty variant: the test of line 248 for 'Uncategorized' and '' left out
learnsRuleAlways(newCategory) == TRUE
learnsRule(newCategory) == newCategory # Uncategorized /\ newCategory # <<>>

\* the rules listener: fetchedRules[rule.keyword.toLowerCase()] = rule.category
RECURSIVE fetchedRules(_)
fetchedRules(docs) ==
    IF docs = <<>> THEN <<>>
    ELSE LET d == docs[Len(docs)]
         IN ObjSet(fetchedRules(SubSeq(docs, 1, Len(docs) - 1)),
                   toLowerCase(d.keyword), d.category)

\* the transactions listener: fetchedTransactions.sort by date, newest first;
\* a comparison with an unparseable date ('') is NaN and counts as equal.
\* The sort is stable (an insertion from the left).
dateTime(tx) ==
    LET dt == parseISO(tx.date)
    IN IF dt.valid THEN Num(10000 * IntVal(dt.y) + 100 * IntVal(dt.m) + IntVal(dt.d))
       ELSE NaN
compareTx(a, b) ==
    IF isNaN(dateTime(a)) \/ isNaN(dateTime(b)) THEN 0
    ELSE dateTime(b).v - dateTime(a).v
RECURSIVE insertTx(_, _)
insertTx(s, x) ==
    IF s # <<>> /\ compareTx(s[Len(s)], x) > 0
    THEN Append(insertTx(SubSeq(s, 1, Len(s) - 1), x), s[Len(s)])
    ELSE Append(s, x)
RECURSIVE sortTx(_)
sortTx(s) ==
    IF s = <<>> THEN <<>>
    ELSE insertTx(sortTx(SubSeq(s, 1, Len(s) - 1)), s[Len(s)])

-----------------------------------------------------------------------------
(* Inputs: cell texts, rows and files                                      *)

Auto == <<"A", "u", "t", "o">>
Dining == <<"D", "i", "n", "i", "n", "g">>

dShell == <<"S", "h", "e", "l", "l", " ", "G", "a", "s", " ",
            "S", "t", "a", "t", "i", "o", "n">>
dGas == <<"G", "a", "s">>
dPadded == <<" ", "G", "a", "s", " ">>
dVegas == <<"V", "e", "g", "a", "s", " ", "7">>
dSeven == <<"7">>
dDouble == <<"S", "h", "e", "l", "l", " ", " ", "G", "a", "s">>
dBlank == <<" ", " ">>

date1 == <<"2", "0", "2", "4", "-", "0", "1", "-", "0", "5">>
date1Basic == <<"2", "0", "2", "4", "0", "1", "0", "5">>
date2 == <<"2", "0", "2", "4", "-", "0", "1", "-", "0", "6">>
dateUS == <<"0", "1", "/", "0", "5", "/", "2", "0", "2", "4">>

Row(date, description, amount, debit, credit) ==
    [Date |-> date, TransactionDate |-> <<>>, PostingDate |-> <<>>,
     Description |-> description, Payee |-> <<>>, TransactionDetails |-> <<>>,
     Amount |-> amount, Debit |-> debit, Credit |-> credit]
\* a bank export with the alias headers
AliasRow(date, description, amount) ==
    [Date |-> <<>>, TransactionDate |-> <<>>, PostingDate |-> date,
     Description |-> <<>>, Payee |-> description, TransactionDetails |-> <<>>,
     Amount |-> amount, Debit |-> <<>>, Credit |-> <<>>]

NoUser == "null"
Owner == "u1"
NoFile == [sel |-> FALSE, data |-> <<>>]
File(data) == [sel |-> TRUE, data |-> data]
Msg(text, n) == [text |-> text, n |-> n]
\* a message that ends with ${error.message}
ErrMsg(text, error) == [text |-> text, n |-> 0, error |-> error]

-----------------------------------------------------------------------------
(* State                                                                   *)

VARIABLES
    txCol,           \* store: the owner's transactions collection
    rulesCol,        \* store: the owner's rules collection
    categoriesCol,   \* store: the owner's categories collection
    userId,          \* React state userId (NoUser is null)
    isAuthenticated, \* React state isAuthenticated
    transactions,    \* React state: last transactions snapshot, sorted
    categories,      \* React state: last categories snapshot
    rules,           \* React state: last rules snapshot, {keyword: category}
    file,            \* React state file
    loading,         \* React state loading
    message,         \* React state message
    imp,             \* the running parseCsv call: its closure and position
    rec,             \* the handleCategoryChange calls: closures and positions
    runs,            \* history: one record per import run
    solo,            \* history: solo[h] iff call h has run with nothing else
    lastSolo,        \* history: the solo call that has just returned, if any
    authEvents,      \* history: number of auth state changes
    env,             \* environment: the files the user can select, the
                     \* number of imports, recategorizations and auth
                     \* changes of the session, extra select values
    newCategoryName, \* React state newCategoryName
    cat,             \* the handleAddCategory and handleDeleteCategory calls:
                     \* closures and positions; returned calls stay as history
    created,         \* store: number of category documents created so far
    peer,            \* a second session of the owner: its categories
                     \* snapshot and the number of categories it has added
    faults           \* history: number of store requests that have failed

vars == <<txCol, rulesCol, categoriesCol, userId, isAuthenticated, transactions,
          categories, rules, file, loading, message, imp, rec, runs, solo,
          lastSolo, authEvents, env, newCategoryName, cat, created, peer,
          faults>>
store == <<txCol, rulesCol, categoriesCol>>
session == <<userId, isAuthenticated, authEvents, env>>
snapshots == <<transactions, categories, rules>>
recats == <<rec, solo, lastSolo>>
forms == <<newCategoryName, cat, created, peer, faults>>

Env(files, nImports, nRecats, nAuths, values) ==
    [files |-> files, imports |-> nImports, recats |-> nRecats,
     auths |-> nAuths, values |-> values]

NoSolo == [on |-> FALSE, description |-> <<>>, newCategory |-> <<>>]
\* another operation starts: no call in progress is solo any more
NotSolo == [h \in DOMAIN solo |-> FALSE]

ImpIdle ==
    [pc |-> "idle", data |-> <<>>, rules |-> <<>>, userId |-> NoUser,
     parsed |-> <<>>, i |-> 0, k |-> 0, existing |-> {}, savedCount |-> 0]

\* the run in progress is the last of the history
SetRun(field, value) == [runs EXCEPT ![Len(runs)][field] = value]

-----------------------------------------------------------------------------
(* Authentication and the snapshot listeners                               *)

\* onAuthStateChanged callback
AuthStateChanged(user) ==
    /\ authEvents < env.auths
    /\ user # userId
    /\ authEvents' = authEvents + 1
    /\ IF user # NoUser
       THEN /\ userId' = user
            /\ isAuthenticated' = TRUE
            /\ message' = Msg("Authenticated as user", 0)
       ELSE /\ userId' = NoUser
            /\ isAuthenticated' = FALSE
            /\ message' = Msg("Not authenticated", 0)
    /\ solo' = NotSolo
    /\ UNCHANGED <<store, forms,
                   snapshots, file, loading, imp, rec, runs, lastSolo, env>>

\* onSnapshot(categoriesColRef): subscribed while db && userId
OnSnapshotCategories ==
    /\ userId # NoUser
    /\ categories # categoriesCol
    /\ categories' = categoriesCol
    /\ UNCHANGED <<store, session, forms,
                   transactions, rules, file, loading, message,
                   imp, recats, runs>>

\* onSnapshot(rulesColRef)
OnSnapshotRules ==
    /\ userId # NoUser
    /\ rules # fetchedRules(rulesCol)
    /\ rules' = fetchedRules(rulesCol)
    /\ UNCHANGED <<store, session, forms,
                   transactions, categories, file, loading,
                   message, imp, recats, runs>>

\* onSnapshot(q) of the transactions collection
OnSnapshotTransactions ==
    /\ userId # NoUser
    /\ transactions # sortTx(txCol)
    /\ transactions' = sortTx(txCol)
    /\ UNCHANGED <<store, session, forms,
                   categories, rules, file, loading, message,
                   imp, recats, runs>>

-----------------------------------------------------------------------------
(* The import: handleFileUpload, parseCsv and the Papa.parse callbacks     *)

\* a faulty variant: the rule table read when the rows are mapped, not the closure's
rulesOfRunLive(captured, live) == live
\* the closure's rule table: the `rules` of the render that created parseCsv
rulesOfRun(captured, live) == captured
\* a faulty variant: the writes of the run not awaited: a later query misses them
queriedColBeforeRun(col, written) ==
    SelectSeq(col, LAMBDA d : \A w \in DOMAIN written : written[w].id # d.id)
\* what the duplicate query of a batch reads: every write of the run so far
\* was awaited, so the collection as it is
queriedCol(col, written) == col

handleFileUpload(f) ==
    /\ Len(runs) < env.imports
    /\ file' = File(f)
    /\ message' = Msg("Selected file", 0)
    /\ lastSolo' = NoSolo
    /\ solo' = NotSolo
    /\ UNCHANGED <<store, session, forms, snapshots, loading, imp, rec, runs>>

\* the Process CSV button is disabled unless file && !loading && isAuthenticated.
\* The model keeps one run in flight (imp.pc = "idle"): that is a bound of the
\* model, not a test of the code; ProcessCsvEnabled is the code's own test.
parseCsv(papaLoaded) ==
    /\ file.sel /\ ~loading /\ isAuthenticated
    /\ imp.pc = "idle"
    /\ Len(runs) < env.imports
    /\ IF ~papaLoaded
       THEN /\ message' = Msg("PapaParse library is not loaded", 0)
            /\ UNCHANGED <<loading, imp, runs>>
       ELSE /\ loading' = TRUE
            /\ message' = Msg("Parsing CSV...", 0)
            /\ imp' = [ImpIdle EXCEPT !.pc = "parsing", !.data = file.data,
                                      !.rules = rules, !.userId = userId]
            /\ runs' = Append(runs,
                   [data |-> file.data, userId |-> userId, rules |-> rules,
                    outcome |-> "running",
                    repeat |-> \E r \in DOMAIN runs :
                                  /\ runs[r].outcome = "done"
                                  /\ runs[r].data = file.data
                                  /\ runs[r].userId = userId,
                    written |-> <<>>])
    /\ lastSolo' = NoSolo
    /\ solo' = NotSolo
    /\ UNCHANGED <<store, session, forms, snapshots, file, rec>>

\* a faulty variant: the message without ${error.message}
ParseErrorNoText(error) ==
    /\ imp.pc = "parsing"
    /\ message' = Msg("Error parsing CSV", 0)
    /\ loading' = FALSE
    /\ imp' = ImpIdle
    /\ runs' = SetRun("outcome", "parseError")
    /\ UNCHANGED <<store, session, forms, snapshots, file, recats>>
\* Papa.parse error callback
ParseError(error) ==
    /\ imp.pc = "parsing"
    /\ message' = ErrMsg("Error parsing CSV", error)
    /\ loading' = FALSE
    /\ imp' = ImpIdle
    /\ runs' = SetRun("outcome", "parseError")
    /\ UNCHANGED <<store, session, forms, snapshots, file, recats>>

\* a faulty variant: the file selection is not reset
FinishedKeepsFile(n) ==
    /\ message' = Msg("Successfully parsed and added new transactions", n)
    /\ UNCHANGED file
    /\ loading' = FALSE
    /\ imp' = ImpIdle
    /\ runs' = SetRun("outcome", "done")
\* the end of a successful complete callback (lines 220-228)
Finished(n) ==
    /\ message' = Msg("Successfully parsed and added new transactions", n)
    /\ file' = NoFile
    /\ loading' = FALSE
    /\ imp' = ImpIdle
    /\ runs' = SetRun("outcome", "done")

\* Papa.parse complete callback, up to its first await
ParseComplete ==
    /\ imp.pc = "parsing"
    /\ IF parseThrows(imp.data)
       THEN \* format throws inside the map: the callback's promise rejects
            /\ imp' = ImpIdle
            /\ runs' = SetRun("outcome", "threw")
            /\ UNCHANGED <<file, loading, message>>
       ELSE LET parsed == parsedTransactions(imp.data, rulesOfRun(imp.rules, rules))
            IN IF imp.userId = NoUser
               THEN /\ message' = Msg("Firestore or user not ready", 0)
                    /\ loading' = FALSE
                    /\ imp' = ImpIdle
                    /\ runs' = SetRun("outcome", "notReady")
                    /\ UNCHANGED file
               ELSE IF parsed = <<>>
               THEN Finished(0)
               ELSE /\ imp' = [imp EXCEPT !.pc = "getDocs", !.parsed = parsed]
                    /\ UNCHANGED <<file, loading, message, runs>>
    /\ UNCHANGED <<store, session, forms, snapshots, recats>>

\* await getDocs(existingTransactionsQuery) of the batch at offset i
ImportGetDocs ==
    /\ imp.pc = "getDocs"
    /\ imp' = [imp EXCEPT
                 !.pc = "batch", !.k = 1,
                 !.existing = existingTxSet(
                                 queriedCol(txCol, runs[Len(runs)].written),
                                 batchAt(imp.parsed, imp.i), imp.userId)]
    /\ UNCHANGED <<store, session, forms,
                   snapshots, file, loading, message, recats, runs>>

\* a faulty variant: the has() test of line 214 left out: every transaction is new
nextNewUnchecked(batch, existing, k) == IF k <= Len(batch) THEN k ELSE 0
\* the next transaction of the batch, from position k on, that is not in
\* existingTxSet; 0 if there is none
nextNew(batch, existing, k) ==
    LET new == {j \in k..Len(batch) : txIdentifier(batch[j]) \notin existing}
    IN IF new = {} THEN 0 ELSE CHOOSE j \in new : \A l \in new : j <= l

\* await addDoc(transactionsColRef, {...tx, userId}); savedCount++
ImportAddDoc ==
    /\ imp.pc = "batch"
    /\ LET batch == batchAt(imp.parsed, imp.i)
           j == nextNew(batch, imp.existing, imp.k)
       IN /\ j # 0
          /\ txCol' = Append(txCol,
                 [id |-> Len(txCol) + 1, date |-> batch[j].date,
                  description |-> batch[j].description,
                  amount |-> batch[j].amount, category |-> batch[j].category,
                  originalRow |-> batch[j].originalRow, userId |-> imp.userId])
          /\ imp' = [imp EXCEPT !.k = j + 1, !.savedCount = @ + 1]
          /\ runs' = SetRun("written",
                 Append(runs[Len(runs)].written,
                        [id |-> Len(txCol) + 1, batch |-> imp.i]))
    /\ UNCHANGED <<rulesCol, categoriesCol, session, forms,
                   snapshots, file, loading,
                   message, recats>>

\* the batch is exhausted: the next batch (i += batchSize) and its query,
\* or after the last batch the report (lines 220-228)
ImportBatchEnd ==
    /\ imp.pc = "batch"
    /\ nextNew(batchAt(imp.parsed, imp.i), imp.existing, imp.k) = 0
    /\ IF imp.i + batchSize < Len(imp.parsed)
       THEN /\ imp' = [imp EXCEPT !.pc = "getDocs", !.i = @ + batchSize]
            /\ UNCHANGED <<file, loading, message, runs>>
       ELSE Finished(imp.savedCount)
    /\ UNCHANGED <<store, session, forms, snapshots, recats>>

\* await addDoc(..) rejects: nothing in the complete callback catches it, so
\* the callback's promise rejects and lines 216-228 do not run
ImportAddDocFails ==
    /\ imp.pc = "batch"
    /\ nextNew(batchAt(imp.parsed, imp.i), imp.existing, imp.k) # 0
    /\ faults < env.faults
    /\ faults' = faults + 1
    /\ imp' = ImpIdle
    /\ runs' = SetRun("outcome", "rejected")
    /\ UNCHANGED <<store, session, snapshots, file, loading, message, recats,
                   newCategoryName, cat, created, peer>>

-----------------------------------------------------------------------------
(* handleCategoryChange: one call per element of rec                       *)

\* a call that has returned keeps nothing
RecDone ==
    [pc |-> "done", transactionId |-> 0, newCategory |-> <<>>,
     userId |-> NoUser, description |-> <<>>, rules |-> <<>>,
     keyword |-> <<>>, empty |-> FALSE, ref |-> 0]
\* call h returns: it is the last solo call if nothing else has run since
\* its start
Returned(h) ==
    /\ lastSolo' = IF solo[h]
                   THEN [on |-> TRUE, description |-> rec[h].description,
                         newCategory |-> rec[h].newCategory]
                   ELSE NoSolo
    /\ solo' = [solo EXCEPT ![h] = FALSE]
Active(h) == rec[h].pc # "done"
\* the options of a row's select, and the other values the handler is
\* called with (the empty value that line 248 tests for)
categoryOptions ==
    {Uncategorized} \cup {categories[i].name : i \in DOMAIN categories}
    \cup env.values

\* a faulty variant: the document is replaced (setDoc without merge) instead
\* of updated, so that its other fields are lost
handleCategoryChangeReplacing(transactionId, newCategory) ==
    /\ Len(rec) < env.recats
    /\ isAuthenticated /\ userId # NoUser
    /\ \E i \in DOMAIN transactions : transactions[i].id = transactionId
    /\ newCategory \in categoryOptions
    /\ txCol' = [txCol EXCEPT ![transactionId] =
                    [@ EXCEPT !.category = newCategory, !.description = <<>>,
                              !.date = <<>>, !.amount = NaN]]
    /\ LET transactionToUpdate ==
               transactions[CHOOSE i \in DOMAIN transactions :
                                transactions[i].id = transactionId]
       IN rec' = Append(rec,
              [pc |-> "updated", transactionId |-> transactionId,
               newCategory |-> newCategory, userId |-> userId,
               description |-> transactionToUpdate.description,
               rules |-> rules, keyword |-> <<>>, empty |-> FALSE, ref |-> 0])
    /\ solo' = Append(NotSolo, FALSE)
    /\ lastSolo' = NoSolo
    /\ UNCHANGED <<rulesCol, categoriesCol, session, forms, snapshots, file,
                   loading, message, imp, runs>>

\* the select's onChange, up to the await of updateDoc(transactionRef, ..).
\* The closure holds the `transactions` and `rules` of the render; of the
\* former, line 247 reads the description of the row that was changed.
handleCategoryChange(transactionId, newCategory) ==
    /\ Len(rec) < env.recats
    /\ isAuthenticated /\ userId # NoUser
    /\ \E i \in DOMAIN transactions : transactions[i].id = transactionId
    /\ newCategory \in categoryOptions
    /\ txCol' = [txCol EXCEPT ![transactionId].category = newCategory]
    /\ LET transactionToUpdate ==
               transactions[CHOOSE i \in DOMAIN transactions :
                                transactions[i].id = transactionId]
       IN rec' = Append(rec,
              [pc |-> "updated", transactionId |-> transactionId,
               newCategory |-> newCategory, userId |-> userId,
               description |-> transactionToUpdate.description,
               rules |-> rules, keyword |-> <<>>, empty |-> FALSE, ref |-> 0])
    /\ solo' = Append(NotSolo,
                      /\ imp.pc = "idle"
                      /\ \A h \in DOMAIN rec : ~Active(h)
                      /\ rules = fetchedRules(rulesCol)
                      /\ transactions = sortTx(txCol))
    /\ lastSolo' = NoSolo
    /\ UNCHANGED <<rulesCol, categoriesCol, session, forms,
                   snapshots, file, loading,
                   message, imp, runs>>

\* after updateDoc: lines 247-256, or line 269 when no rule is to be learned
RecatResume(h) ==
    /\ rec[h].pc = "updated"
    /\ LET r == rec[h]
           keyword == keywordCandidate(r.description)
           docs == {i \in DOMAIN rulesCol :
                       /\ rulesCol[i].keyword = keyword
                       /\ rulesCol[i].userId = r.userId}
       IN IF learnsRule(r.newCategory)
             /\ needsRule(r.rules, keyword, r.newCategory)
          THEN \* await getDocs(q)
               /\ rec' = [rec EXCEPT ![h] =
                     [r EXCEPT !.pc = "queried", !.keyword = keyword,
                               !.empty = (docs = {}),
                               !.ref = IF docs = {} THEN 0
                                       ELSE CHOOSE i \in docs :
                                                \A j \in docs : i <= j]]
               /\ UNCHANGED <<message, solo, lastSolo>>
          ELSE /\ rec' = [rec EXCEPT ![h] = RecDone]
               /\ message' = Msg("Transaction category updated.", 0)
               /\ Returned(h)
    /\ UNCHANGED <<store, session, forms, snapshots, file, loading, imp, runs>>

\* after getDocs: addDoc of a new rule, or updateDoc of snapshot.docs[0]
RecatWriteRule(h) ==
    /\ rec[h].pc = "queried"
    /\ LET r == rec[h]
       IN rulesCol' =
            IF r.empty
            THEN Append(rulesCol, [keyword |-> r.keyword,
                                   category |-> r.newCategory,
                                   userId |-> r.userId])
            ELSE [rulesCol EXCEPT ![r.ref].category = r.newCategory]
    /\ rec' = [rec EXCEPT ![h].pc = "ruleWritten"]
    /\ UNCHANGED <<txCol, categoriesCol, session, forms,
                   snapshots, file, loading,
                   message, imp, runs, solo, lastSolo>>

\* after the rule write: the two setMessage calls, the last one wins
RecatFinish(h) ==
    /\ rec[h].pc = "ruleWritten"
    /\ rec' = [rec EXCEPT ![h] = RecDone]
    /\ message' = Msg("Transaction category updated.", 0)
    /\ Returned(h)
    /\ UNCHANGED <<store, session, forms, snapshots, file, loading, imp, runs>>

-----------------------------------------------------------------------------
(* handleAddCategory and handleDeleteCategory: one call per element of cat *)

\* a faulty variant: the names compared as they are typed
categoryExistsExact(list, name) ==
    \E i \in DOMAIN list : list[i].name = trim(name)
\* categories.some(cat => cat.name.toLowerCase() === name.trim().toLowerCase())
categoryExists(list, name) ==
    \E i \in DOMAIN list : toLowerCase(list[i].name) = toLowerCase(trim(name))
\* a faulty variant: the documents from the deleted one on are removed
deleteDocAndRest(col, id) ==
    LET at == {i \in DOMAIN col : col[i].id = id}
    IN IF at = {} THEN col
       ELSE SubSeq(col, 1, (CHOOSE i \in at : TRUE) - 1)
\* deleteDoc(doc(db, path, id)): a document that is gone already is no error
deleteDoc(col, id) == SelectSeq(col, LAMBDA d : d.id # id)
\* addDoc(colRef, data): the store gives the document a fresh id
addCategoryDoc(col, n, name, uid) ==
    Append(col, [id |-> n + 1, name |-> name, userId |-> uid])

CatCall(op, pc, name, id) ==
    [op |-> op, pc |-> pc, name |-> name, id |-> id, userId |-> userId,
     categories |-> categories]

\* onChange of the name input (disabled unless isAuthenticated)
SetNewCategoryName(name) ==
    /\ isAuthenticated
    /\ name # newCategoryName
    /\ newCategoryName' = name
    /\ UNCHANGED <<store, session, snapshots, file, loading, message, imp, runs,
                   recats, cat, created, peer, faults>>

\* the Add button, up to the await of addDoc.  The button is disabled while
\* loading or not authenticated; it is disabled for a blank name too (line
\* 401), which the handler tests again in line 278: the model keeps the
\* handler's test reachable.
handleAddCategory ==
    /\ Len(cat) < env.categoryCalls
    /\ ~loading /\ isAuthenticated
    /\ IF trim(newCategoryName) = <<>> \/ userId = NoUser
       THEN /\ message' = Msg("Category name cannot be empty.", 0)
            /\ cat' = Append(cat, CatCall("add", "empty", newCategoryName, 0))
            /\ UNCHANGED loading
       ELSE IF categoryExists(categories, newCategoryName)
       THEN /\ message' = Msg("Category already exists.", 0)
            /\ cat' = Append(cat, CatCall("add", "exists", newCategoryName, 0))
            /\ UNCHANGED loading
       ELSE /\ loading' = TRUE
            /\ cat' = Append(cat, CatCall("add", "adding", newCategoryName, 0))
            /\ UNCHANGED message
    /\ solo' = NotSolo
    /\ lastSolo' = NoSolo
    /\ UNCHANGED <<store, session, snapshots, file, imp, runs, rec,
                   newCategoryName, created, peer, faults>>

\* await addDoc(..) returns: lines 291-292 and the finally of line 297
AddCategoryDone(h) ==
    /\ cat[h].pc = "adding"
    /\ categoriesCol' =
           addCategoryDoc(categoriesCol, created, trim(cat[h].name), cat[h].userId)
    /\ created' = created + 1
    /\ newCategoryName' = <<>>
    /\ message' = Msg("Category added successfully!", 0)
    /\ loading' = FALSE
    /\ cat' = [cat EXCEPT ![h].pc = "done", ![h].id = created + 1]
    /\ UNCHANGED <<txCol, rulesCol, session, snapshots, file, imp, runs, recats,
                   peer, faults>>

\* await addDoc(..) rejects: the catch of line 293 and the finally
AddCategoryFails(h) ==
    /\ cat[h].pc = "adding"
    /\ faults < env.faults
    /\ faults' = faults + 1
    /\ message' = Msg("Error adding category", 0)
    /\ loading' = FALSE
    /\ cat' = [cat EXCEPT ![h].pc = "failed"]
    /\ UNCHANGED <<store, session, snapshots, file, imp, runs, recats,
                   newCategoryName, created, peer>>

\* the Delete button of a listed category (disabled unless isAuthenticated),
\* up to the await of deleteDoc
handleDeleteCategory(categoryId) ==
    /\ Len(cat) < env.categoryCalls
    /\ isAuthenticated /\ userId # NoUser
    /\ \E i \in DOMAIN categories : categories[i].id = categoryId
    /\ loading' = TRUE
    /\ cat' = Append(cat, CatCall("delete", "deleting", <<>>, categoryId))
    /\ solo' = NotSolo
    /\ lastSolo' = NoSolo
    /\ UNCHANGED <<store, session, snapshots, file, message, imp, runs, rec,
                   newCategoryName, created, peer, faults>>

\* await deleteDoc(..) returns: line 310 and the finally of line 315
DeleteCategoryDone(h) ==
    /\ cat[h].pc = "deleting"
    /\ categoriesCol' = deleteDoc(categoriesCol, cat[h].id)
    /\ message' = Msg("Category deleted successfully!", 0)
    /\ loading' = FALSE
    /\ cat' = [cat EXCEPT ![h].pc = "done"]
    /\ UNCHANGED <<txCol, rulesCol, session, snapshots, file, imp, runs, recats,
                   newCategoryName, created, peer, faults>>

\* await deleteDoc(..) rejects: the catch of line 311 and the finally
DeleteCategoryFails(h) ==
    /\ cat[h].pc = "deleting"
    /\ faults < env.faults
    /\ faults' = faults + 1
    /\ message' = Msg("Error deleting category", 0)
    /\ loading' = FALSE
    /\ cat' = [cat EXCEPT ![h].pc = "failed"]
    /\ UNCHANGED <<store, session, snapshots, file, imp, runs, recats,
                   newCategoryName, created, peer>>

\* A second session of the same owner (another tab or device) runs the same
\* code on its own categories snapshot.
PeerSnapshotCategories ==
    /\ peer.categories # categoriesCol
    /\ peer' = [peer EXCEPT !.categories = categoriesCol]
    /\ UNCHANGED <<store, session, snapshots, file, loading, message, imp, runs,
                   recats, newCategoryName, cat, created, faults>>
\* handleAddCategory of the second session, with its addDoc
PeerAddCategory(name) ==
    /\ peer.adds < env.peerAdds
    /\ trim(name) # <<>>
    /\ ~categoryExists(peer.categories, name)
    /\ categoriesCol' = addCategoryDoc(categoriesCol, created, trim(name), Owner)
    /\ created' = created + 1
    /\ peer' = [peer EXCEPT !.adds = @ + 1]
    /\ solo' = NotSolo
    /\ lastSolo' = NoSolo
    /\ UNCHANGED <<txCol, rulesCol, session, snapshots, file, loading, message,
                   imp, runs, rec, newCategoryName, cat, faults>>

-----------------------------------------------------------------------------
(* Specifications                                                          *)

CategoryDoc(id, name) == [id |-> id, name |-> name, userId |-> Owner]
TxDoc(id, tx, uid) ==
    [id |-> id, date |-> tx.date, description |-> tx.description,
     amount |-> tx.amount, category |-> tx.category,
     originalRow |-> tx.originalRow, userId |-> uid]
\* the transactions collection after an earlier import of `data`
Imported(data) ==
    LET parsed == parsedTransactions(data, <<>>)
    IN [i \in DOMAIN parsed |-> TxDoc(i, parsed[i], Owner)]

\* A session: uid is NoUser before the first auth state change; `synced`
\* says whether the listeners have delivered their first snapshots
InitState(uid, synced, txDocs, ruleDocs, selected, e) ==
    /\ txCol = txDocs
    /\ rulesCol = ruleDocs
    /\ categoriesCol = <<CategoryDoc(1, Auto), CategoryDoc(2, Dining)>>
    /\ userId = uid
    /\ isAuthenticated = (uid # NoUser)
    /\ transactions = IF synced THEN sortTx(txDocs) ELSE <<>>
    /\ categories = IF synced THEN categoriesCol ELSE <<>>
    /\ rules = IF synced THEN fetchedRules(ruleDocs) ELSE <<>>
    /\ file = selected
    /\ loading = FALSE
    /\ message = Msg("", 0)
    /\ imp = ImpIdle
    /\ rec = <<>>
    /\ runs = <<>>
    /\ solo = <<>>
    /\ lastSolo = NoSolo
    /\ authEvents = 0
    /\ env = e
    /\ newCategoryName = <<>>
    /\ cat = <<>>
    /\ created = Len(categoriesCol)
    /\ peer = [categories |-> categoriesCol, adds |-> 0]
    /\ faults = 0

\* error.message of the errors Papa.parse reports for a file
ParserErrors == {"NotReadableError", "File could not be read"}
Listeners ==
    \/ OnSnapshotCategories
    \/ OnSnapshotRules
    \/ OnSnapshotTransactions
Import ==
    \/ \E papaLoaded \in BOOLEAN : parseCsv(papaLoaded)
    \/ \E error \in ParserErrors : ParseError(error)
    \/ ParseComplete
    \/ ImportGetDocs
    \/ ImportAddDoc
    \/ ImportBatchEnd
Recategorize ==
    \/ \E id \in DOMAIN txCol : \E c \in categoryOptions : handleCategoryChange(id, c)
    \/ \E h \in DOMAIN rec : RecatResume(h)
    \/ \E h \in DOMAIN rec : RecatWriteRule(h)
    \/ \E h \in DOMAIN rec : RecatFinish(h)

CategoryOps ==
    \/ \E name \in env.names : SetNewCategoryName(name)
    \/ handleAddCategory
    \/ \E h \in DOMAIN cat : AddCategoryDone(h)
    \/ \E id \in 1..created : handleDeleteCategory(id)
    \/ \E h \in DOMAIN cat : DeleteCategoryDone(h)
CategoryFaults ==
    \/ \E h \in DOMAIN cat : AddCategoryFails(h)
    \/ \E h \in DOMAIN cat : DeleteCategoryFails(h)
Peer ==
    \/ PeerSnapshotCategories
    \/ \E name \in env.names : PeerAddCategory(toLowerCase(name))
\* the environment of a session with the category form in use: the number
\* of category calls, of categories the second session adds and of failing
\* store requests, and the names that are typed
EnvMore(e, nCategoryCalls, nPeerAdds, nFaults, names) ==
    e @@ [categoryCalls |-> nCategoryCalls, peerAdds |-> nPeerAdds,
          faults |-> nFaults, names |-> names]

cFood == <<"F", "o", "o", "d">>
cAutoLower == <<"a", "u", "t", "o">>

c5 == <<"5">>
GasRow == Row(date1, dGas, <<>>, c5, <<>>)
GasFile == <<GasRow>>
\* a row that is persisted already and a new one
MainFile == <<GasRow, Row(date2, dPadded, c5, <<>>, <<>>)>>

\* The whole session from its construction: not authenticated, no snapshot
\* delivered, one transaction persisted by an earlier session
MaxImports == 1
MaxRecats == 1
MaxAuthEvents == 2
MaxCategoryCalls == 1
Init ==
    InitState(NoUser, FALSE, Imported(GasFile), <<>>, NoFile,
              EnvMore(Env({MainFile}, MaxImports, MaxRecats, MaxAuthEvents, {<<>>}),
                      MaxCategoryCalls, 0, 0, {cFood}))
Next ==
    \/ \E user \in {Owner, NoUser} : AuthStateChanged(user)
    \/ Listeners
    \/ \E f \in env.files : handleFileUpload(f)
    \/ Import
    \/ Recategorize
    \/ CategoryOps
Spec == Init /\ [][Next]_vars

-----------------------------------------------------------------------------
(* SpecNormalize: the import of every one-row file over the cell texts     *)

c0 == <<"0">>
c4217 == <<"4", "2", ".", "1", "7">>
cDollar5 == <<"$", "5">>
cText == <<"a", "b", "c">>
cMinus5 == <<"-", "5">>
Cells == {<<>>, c0, c5, c4217, cDollar5, cText, cMinus5}
NormalizeRows ==
    {Row(date, description, amount, debit, credit) :
        date \in {date1, <<>>, dateUS},
        description \in {dGas, dPadded, dBlank},
        amount \in Cells, debit \in Cells, credit \in Cells}
    \cup {AliasRow(date2, dShell, amount) : amount \in Cells}
\* a row with a padded description and an amount that is no number
TextAmountRow == Row(date2, dPadded, cText, <<>>, <<>>)
MaxRowImports == 1
InitNormalize ==
    \E row \in NormalizeRows :
        InitState(Owner, TRUE, <<>>, <<>>, File(<<row, TextAmountRow>>),
                  Env({}, MaxRowImports, 0, 0, {}))
NextImport == Import
SpecNormalize == InitNormalize /\ [][NextImport]_vars

-----------------------------------------------------------------------------
(* SpecCategorize: the import of one description under every rule table    *)

kGas == <<"g", "a", "s">>
kVegas == <<"v", "e", "g", "a", "s", " ", "7">>
k7 == <<"7">>
k12 == <<"1", "2">>
d12 == <<"1", "2">>
d127 == <<"1", "2", "7">>
RuleDoc(keyword, category) ==
    [keyword |-> keyword, category |-> category, userId |-> Owner]
RuleDocs == {RuleDoc(k, c) : k \in {kGas, kVegas, k7, k12}, c \in {Auto, Dining}}
MaxRuleDocs == 2
RuleCols == UNION {[1..n -> RuleDocs] : n \in 0..MaxRuleDocs}
InitCategorize ==
    \E docs \in RuleCols :
        \E description \in {dGas, dVegas, dSeven, d12, d127, dShell} :
            InitState(Owner, TRUE, <<>>, docs,
                      File(<<Row(date1, description, c5, <<>>, <<>>)>>),
                      Env({}, MaxRowImports, 0, 0, {}))
SpecCategorize == InitCategorize /\ [][NextImport]_vars

-----------------------------------------------------------------------------
(* SpecImport: import runs one after another, with files of two batches    *)

\* batchSize rows of distinct amounts, then a row equal to the first one
RepeatFile ==
    [i \in 1..(batchSize + 1) |->
        Row(date1, dGas, <<>>, NatToStr(IF i <= batchSize THEN i ELSE 1), <<>>)]
\* batchSize + 1 rows of distinct amounts
LongFile == [i \in 1..(batchSize + 1) |-> Row(date1, dGas, <<>>, NatToStr(i), <<>>)]
\* two rows of one identity, and a row without description
PairFile ==
    <<GasRow, Row(date1Basic, dPadded, <<>>, c5, <<>>), Row(date2, dBlank, c5, <<>>, <<>>)>>
MaxRuns == 2
InitImport ==
    InitState(Owner, TRUE, <<>>, <<>>, NoFile,
              Env({RepeatFile, LongFile, PairFile}, MaxRuns, 0, 0, {}))
NextUpload ==
    \/ \E f \in env.files : handleFileUpload(f)
    \/ Import
SpecImport == InitImport /\ [][NextUpload]_vars

-----------------------------------------------------------------------------
(* SpecRecat: concurrent recategorizations of persisted transactions       *)

MaxCalls == 2
InitRecat ==
    InitState(Owner, FALSE,
              Imported(<<GasRow, Row(date2, dDouble, c5, <<>>, <<>>)>>),
              <<>>, NoFile, Env({}, 0, MaxCalls, 0, {<<>>}))
NextRecat ==
    \/ Listeners
    \/ Recategorize
SpecRecat == InitRecat /\ [][NextRecat]_vars

-----------------------------------------------------------------------------
(* SpecSession: an authenticated session with a file selected; the import  *)
(* runs while transactions are recategorized and the listeners deliver     *)

MaxSessionImports == 1
MaxSessionRecats == 1
InitSession ==
    InitState(Owner, FALSE, Imported(GasFile), <<>>, File(MainFile),
              Env({}, MaxSessionImports, MaxSessionRecats, 0, {<<>>}))
NextSession ==
    \/ Listeners
    \/ Import
    \/ Recategorize
SpecSession == InitSession /\ [][NextSession]_vars

-----------------------------------------------------------------------------
(* SpecFaults: imports one after another over a store whose writes can fail *)

\* three new rows and one that is persisted already
FourFile ==
    <<GasRow, Row(date2, dGas, c5, <<>>, <<>>), Row(date2, dShell, c5, <<>>, <<>>),
      Row(date1, dVegas, <<>>, <<>>, c5)>>
MaxFaultRuns == 2
MaxFaults == 1
InitFaults ==
    InitState(Owner, TRUE, Imported(GasFile), <<>>, NoFile,
              EnvMore(Env({FourFile, PairFile}, MaxFaultRuns, 0, 0, {}), 0, 0, MaxFaults, {}))
NextFaults ==
    \/ NextUpload
    \/ ImportAddDocFails
SpecFaults == InitFaults /\ [][NextFaults]_vars

-----------------------------------------------------------------------------
(* SpecRelease: import runs of one session with every way a run can end:   *)
(* the report, the parser's error, a row whose date cannot be parsed, a    *)
(* rejected duplicate query and a rejected write.  Every callback and      *)
(* every awaited request of a run in progress eventually returns.          *)

\* await getDocs(..) rejects: as for addDoc, nothing catches it
ImportGetDocsFails ==
    /\ imp.pc = "getDocs"
    /\ faults < env.faults
    /\ faults' = faults + 1
    /\ imp' = ImpIdle
    /\ runs' = SetRun("outcome", "rejected")
    /\ UNCHANGED <<store, session, snapshots, file, loading, message, recats,
                   newCategoryName, cat, created, peer>>

\* a row whose date is not in an ISO form
USFile == <<GasRow, Row(dateUS, dShell, c5, <<>>, <<>>)>>
MaxReleaseRuns == 2
InitRelease ==
    InitState(Owner, TRUE, Imported(GasFile), <<>>, NoFile,
              EnvMore(Env({FourFile, USFile, PairFile}, MaxReleaseRuns, 0, 0, {}),
                      0, 0, MaxFaults, {}))
\* the steps the runtime takes for a run in progress: a callback of
\* Papa.parse, or the continuation of an await that resolved or rejected
RunProgress ==
    \/ \E error \in ParserErrors : ParseError(error)
    \/ ParseComplete
    \/ ImportGetDocs
    \/ ImportGetDocsFails
    \/ ImportAddDoc
    \/ ImportAddDocFails
    \/ ImportBatchEnd
NextRelease ==
    \/ \E f \in env.files : handleFileUpload(f)
    \/ \E papaLoaded \in BOOLEAN : parseCsv(papaLoaded)
    \/ RunProgress
SpecRelease == InitRelease /\ [][NextRelease]_vars /\ WF_vars(RunProgress)

-----------------------------------------------------------------------------
(* SpecCategories: the category form of a session and of a second session  *)
(* of the owner, over a store with a tagged transaction and its rule       *)

TaggedStore ==
    LET parsed == parsedTransactions(GasFile, fetchedRules(<<RuleDoc(kGas, Auto)>>))
    IN [i \in DOMAIN parsed |-> TxDoc(i, parsed[i], Owner)]
MaxFormCalls == 1
MaxPeerAdds == 1
InitCategories ==
    InitState(Owner, TRUE, TaggedStore, <<RuleDoc(kGas, Auto)>>, NoFile,
              EnvMore(Env({}, 0, 0, 0, {}), MaxFormCalls, MaxPeerAdds, MaxFaults,
                      {cFood, cAutoLower, dBlank}))
NextCategories ==
    \/ OnSnapshotCategories
    \/ CategoryOps
    \/ CategoryFaults
    \/ Peer
SpecCategories == InitCategories /\ [][NextCategories]_vars

-----------------------------------------------------------------------------
(* SpecLifecycle: imports, recategorizations and category calls of one     *)
(* authenticated session over a persisted transaction, one call after the  *)
(* other: a handler is called when no call is in progress                  *)
(* (the import of the selected file can be repeated after a parse error)   *)

MaxLifeCalls == 3
InitLifecycle ==
    InitState(Owner, TRUE, Imported(GasFile), <<>>, File(MainFile),
              EnvMore(Env({}, MaxLifeCalls, MaxLifeCalls, 0, {}),
                      MaxLifeCalls, 0, 0, {cFood}))
\* the session makes MaxLifeCalls handler calls in all
NoCallInProgress ==
    /\ Len(runs) + Len(rec) + Len(cat) < MaxLifeCalls
    /\ imp.pc = "idle"
    /\ \A h \in DOMAIN rec : ~Active(h)
    /\ \A h \in DOMAIN cat : cat[h].pc \notin {"adding", "deleting"}
NextLifecycle ==
    \/ Listeners
    \/ NoCallInProgress /\ \E papaLoaded \in BOOLEAN : parseCsv(papaLoaded)
    \/ \E error \in ParserErrors : ParseError(error)
    \/ ParseComplete
    \/ ImportGetDocs
    \/ ImportAddDoc
    \/ ImportBatchEnd
    \/ NoCallInProgress /\ \E id \in DOMAIN txCol : \E c \in categoryOptions :
                               handleCategoryChange(id, c)
    \/ \E h \in DOMAIN rec : RecatResume(h)
    \/ \E h \in DOMAIN rec : RecatWriteRule(h)
    \/ \E h \in DOMAIN rec : RecatFinish(h)
    \/ \E name \in env.names : SetNewCategoryName(name)
    \/ NoCallInProgress /\ handleAddCategory
    \/ \E h \in DOMAIN cat : AddCategoryDone(h)
    \/ NoCallInProgress /\ \E id \in 1..created : handleDeleteCategory(id)
    \/ \E h \in DOMAIN cat : DeleteCategoryDone(h)
SpecLifecycle == InitLifecycle /\ [][NextLifecycle]_vars

-----------------------------------------------------------------------------
(* Claims                                                                  *)

\* the transactions of the run in progress, once the rows are mapped
Candidates == {imp.parsed[j] : j \in DOMAIN imp.parsed}
Identities(col) == {txIdentifier(col[d]) : d \in DOMAIN col}
LastRun == runs[Len(runs)]

\* C1: an import run of a file that the same owner has imported to
\* completion before writes no transaction: its written count stays 0, the
\* count it reports is 0 and no document of the collection is its own.
C1_SecondImportWritesNothing ==
    /\ \A r \in DOMAIN runs : runs[r].repeat => runs[r].written = <<>>
    /\ (runs # <<>> /\ LastRun.repeat) =>
          /\ imp.savedCount = 0
          /\ (LastRun.outcome = "done"
              /\ message.text = "Successfully parsed and added new transactions")
                 => message.n = 0
\* a second run of a file has returned, and the first one had written
C1_Witness ==
    /\ Len(runs) >= 2
    /\ LastRun.repeat /\ LastRun.outcome = "done"
    /\ \E r \in DOMAIN runs : runs[r].data = LastRun.data /\ Len(runs[r].written) >= 2

ParsedAmount(cell) == parseFloat(cell)
IsNumberCell(cell) == cell # <<>> /\ ~isNaN(ParsedAmount(cell))

\* C3 (as claimed): every row whose Debit cell is non-empty and parses as a
\* number, 0 included, is normalized to the negation of that number,
\* whatever its Amount and Credit cells hold.
C3_DebitIsNegated ==
    \A tx \in Candidates :
        IsNumberCell(tx.originalRow.Debit)
            => tx.amount = Neg(ParsedAmount(tx.originalRow.Debit))

\* C4 (as claimed): every row without a usable Debit cell whose Credit cell
\* is non-empty and parses as a number, 0 included, is normalized to that
\* number, whatever its Amount cell holds.
C4_CreditIsAmount ==
    \A tx \in Candidates :
        (~IsNumberCell(tx.originalRow.Debit) /\ IsNumberCell(tx.originalRow.Credit))
            => tx.amount = ParsedAmount(tx.originalRow.Credit)

\* C6: every persisted transaction has a description that is non-empty
\* after trimming and an amount that is a number, and comes from a row whose
\* description is not blank.
C6_WrittenRowsAreValid ==
    \A d \in DOMAIN txCol :
        /\ trim(txCol[d].description) # <<>>
        /\ ~isNaN(txCol[d].amount)
        /\ trim(rowDescription(txCol[d].originalRow)) # <<>>
\* the import of a blank-description row and a valid row has returned: the
\* valid row alone is persisted, trimmed, its amount 0
C6_Witness ==
    /\ runs # <<>> /\ LastRun.outcome = "done"
    /\ trim(rowDescription(LastRun.data[1])) = <<>>
    /\ rowDescription(LastRun.data[1]) # <<>>
    /\ Len(txCol) = 1
    /\ txCol[1].originalRow = TextAmountRow
    /\ txCol[1].description = dGas
    /\ txCol[1].amount = Num(0)

\* the rule table the last import run was started with, in insertion order
RunRules == LastRun.rules
Hits(description, table) ==
    {i \in DOMAIN table : includes(toLowerCase(description), table[i].keyword)}
\* key i is enumerated before key j: an array index before any other key,
\* two array indices by their values, two other keys by their insertion
EnumeratedBefore(table, i, j) ==
    LET ki == table[i].keyword
        kj == table[j].keyword
    IN IF IsArrayIndex(ki)
       THEN ~IsArrayIndex(kj) \/ IntVal(ki) < IntVal(kj)
       ELSE ~IsArrayIndex(kj) /\ i < j

\* C5 (as claimed): the category assigned at import is that of the first
\* keyword, in the insertion order of the rule snapshot, that is a substring
\* of the lowercased description, and "Uncategorized" when there is none.
C5_FirstInsertedKeywordWins ==
    \A tx \in Candidates :
        LET hits == Hits(rowDescription(tx.originalRow), RunRules)
        IN IF hits = {} THEN tx.category = Uncategorized
           ELSE tx.category =
                    RunRules[CHOOSE i \in hits : \A j \in hits : i <= j].category

\* C5 (amended): the category assigned at import is that of the first
\* keyword, in the enumeration order of the rule table, that is a substring
\* of the lowercased description: the keywords that are array indices ("7",
\* "12") come first, in ascending numeric order, and the other keywords
\* follow in insertion order; "Uncategorized" when no keyword is a substring.
C5_FirstEnumeratedKeywordWins ==
    \A tx \in Candidates :
        LET hits == Hits(rowDescription(tx.originalRow), RunRules)
        IN IF hits = {} THEN tx.category = Uncategorized
           ELSE \E i \in hits :
                    /\ \A j \in hits \ {i} : EnumeratedBefore(RunRules, i, j)
                    /\ tx.category = RunRules[i].category
\* a row is categorized by a numeric keyword that was inserted after another
\* matching keyword of a different category
C5_Witness ==
    \E tx \in Candidates :
        \E i, j \in Hits(rowDescription(tx.originalRow), RunRules) :
            /\ i < j
            /\ IsArrayIndex(RunRules[j].keyword)
            /\ ~IsArrayIndex(RunRules[i].keyword)
            /\ RunRules[i].category # RunRules[j].category
            /\ tx.category = RunRules[j].category

\* C2 (as claimed): the persisted rules of an owner never hold two rule
\* documents with the same keyword, however the recategorizations interleave.
C2_OneRulePerKeyword ==
    \A i, j \in DOMAIN rulesCol :
        (rulesCol[i].keyword = rulesCol[j].keyword
         /\ rulesCol[i].userId = rulesCol[j].userId) => i = j

\* the words of a text: what is left between its spaces
Tokens(text) == SelectSeq(split(text), LAMBDA t : t # <<>>)
FirstTwoTokens(text) ==
    LET ts == Tokens(toLowerCase(text))
    IN IF Len(ts) >= 2 THEN ts[1] \o <<" ">> \o ts[2]
       ELSE IF Len(ts) = 1 THEN ts[1] ELSE <<>>
NoRuleCategories == {Uncategorized, <<>>}

\* C7 (as claimed): after a recategorization of a transaction with
\* description d to a category c other than "Uncategorized" and "", run
\* alone to its end, the persisted rules hold a rule whose keyword is the
\* first two whitespace-separated tokens of lowercase(d), joined by one
\* space, and whose category is c.
C7_RuleOfFirstTwoTokens ==
    (lastSolo.on /\ lastSolo.newCategory \notin NoRuleCategories) =>
        \E i \in DOMAIN rulesCol :
            /\ rulesCol[i].keyword = FirstTwoTokens(lastSolo.description)
            /\ rulesCol[i].category = lastSolo.newCategory

\* the call h takes the step: it starts, or its record changes
StepOf(h) == h \notin DOMAIN rec \/ rec'[h] # rec[h]
\* C8: every step of a recategorization to "Uncategorized" or to "" leaves
\* the persisted rules as they are; its first step persists the new category
\* on the transaction, and touches no other transaction; its next step is
\* its return.
C8_UncategorizedLearnsNoRule ==
    [][\A h \in DOMAIN rec' :
          (StepOf(h)
           /\ (IF h \in DOMAIN rec THEN rec[h].pc # "done" ELSE TRUE)
           /\ (IF h \in DOMAIN rec THEN rec[h].newCategory
                                   ELSE rec'[h].newCategory) \in NoRuleCategories)
          => /\ rulesCol' = rulesCol
             /\ IF h \in DOMAIN rec
                THEN rec'[h].pc = "done" /\ txCol' = txCol
                ELSE /\ DOMAIN txCol' = DOMAIN txCol
                     /\ \A d \in DOMAIN txCol :
                           txCol'[d] =
                               IF d = rec'[h].transactionId
                               THEN [txCol[d] EXCEPT !.category = rec'[h].newCategory]
                               ELSE txCol[d]]_vars
\* a recategorization to "" has run alone to its end: the transaction holds
\* the category and there is no rule
C8_Witness ==
    /\ lastSolo.on
    /\ lastSolo.newCategory = <<>>
    /\ \E d \in DOMAIN txCol :
          txCol[d].category = <<>> /\ txCol[d].description = lastSolo.description
    /\ rulesCol = <<>>

\* C9: every row of an import run carries the category that the rule table
\* of the run's start gives it, whatever rules were learned and delivered
\* since.
C9_CategorizedBySnapshotAtStart ==
    \A tx \in Candidates :
        tx.category = Categorize(rowDescription(tx.originalRow), RunRules)
\* the rows of a run in progress were mapped after a learned rule reached
\* the session, and the rule would have given one of them another category
C9_Witness ==
    /\ imp.pc \in {"getDocs", "batch"}
    /\ rules # RunRules
    /\ \E i \in DOMAIN rulesCol : rulesCol[i].category = Auto
    /\ \E tx \in Candidates :
          /\ tx.category = Uncategorized
          /\ Categorize(rowDescription(tx.originalRow), rules) = Auto

WrittenIdentity(w) == txIdentifier(txCol[w.id])
\* C10: the transactions one run writes in different batches have different
\* identity strings; when the query of a batch is issued, every candidate of
\* the batches before it is persisted; and the answer to the query holds the
\* identity of every transaction the run wrote in an earlier batch on a date
\* of this batch.
C10_BatchesInSequence ==
    /\ \A r \in DOMAIN runs :
          \A a, b \in DOMAIN runs[r].written :
              runs[r].written[a].batch # runs[r].written[b].batch
                  => WrittenIdentity(runs[r].written[a])
                         # WrittenIdentity(runs[r].written[b])
    /\ imp.pc \in {"getDocs", "batch"} =>
          \A j \in 1..imp.i : txIdentifier(imp.parsed[j]) \in Identities(txCol)
    /\ imp.pc = "batch" =>
          \A w \in DOMAIN LastRun.written :
              (LastRun.written[w].batch < imp.i
               /\ \E j \in DOMAIN batchAt(imp.parsed, imp.i) :
                     batchAt(imp.parsed, imp.i)[j].date
                         = txCol[LastRun.written[w].id].date)
                  => WrittenIdentity(LastRun.written[w]) \in imp.existing
\* the first import of the file whose last row equals its first: the first
\* batch wrote batchSize transactions, the second batch skipped its row
C10_Witness ==
    /\ runs # <<>>
    /\ LastRun.outcome = "done"
    /\ LastRun.data = RepeatFile
    /\ Len(LastRun.data) > batchSize
    /\ Len(LastRun.written) = batchSize
    /\ message = Msg("Successfully parsed and added new transactions", batchSize)

\* C11 (as claimed): once a write of an import has failed, no run has ended
\* with the failure uncaught, a status message has replaced the progress
\* message, and the transactions the runs wrote are in the store.
C11_WriteFailureIsCaught ==
    faults > 0 =>
        /\ \A r \in DOMAIN runs : runs[r].outcome # "rejected"
        /\ message.text # "Parsing CSV..."
        /\ \A r \in DOMAIN runs : \A w \in DOMAIN runs[r].written :
              \E d \in DOMAIN txCol : txCol[d].id = runs[r].written[w].id

\* C12 (as claimed): when an import is over, every row of its file that has
\* no malformed date and passes the filter is persisted, whether or not
\* another row of the file has a malformed date.
C12_OtherRowsAreWritten ==
    (runs # <<>> /\ LastRun.outcome \in {"done", "threw"}) =>
        \A j \in DOMAIN LastRun.data :
            LET row == LastRun.data[j]
            IN (~rowThrows(row) /\ keepTx(mapRow(row, LastRun.rules)))
                   => txIdentifier(mapRow(row, LastRun.rules)) \in Identities(txCol)

SameName(a, b) == toLowerCase(a) = toLowerCase(b)
\* the name of an add call is blank, or is the name of a category of the
\* list the call was made with, letter case ignored
MustReject(call) ==
    \/ trim(call.name) = <<>>
    \/ \E i \in DOMAIN call.categories :
          SameName(call.categories[i].name, trim(call.name))
Rejected(call) == call.pc \in {"empty", "exists"}

\* C13: a call of handleAddCategory with a name that is blank after
\* trimming, or equal but for letter case to a name of the session's
\* category list, is rejected in its first step, which leaves the categories
\* collection as it is, sends nothing to the store and shows a message; a
\* rejected call takes no further step.
C13_BlankOrDuplicateNameRejected ==
    [][/\ Len(cat') > Len(cat) =>
            LET call == cat'[Len(cat')]
            IN (call.op = "add" /\ MustReject(call)) =>
                   /\ Rejected(call)
                   /\ categoriesCol' = categoriesCol
                   /\ created' = created
                   /\ loading' = loading
                   /\ message'.text \in {"Category name cannot be empty.",
                                         "Category already exists."}
       /\ \A h \in DOMAIN cat : Rejected(cat[h]) => cat'[h] = cat[h]]_vars
\* "auto" was rejected while the category "Auto" is listed
C13_Witness ==
    /\ \E h \in DOMAIN cat :
          /\ cat[h].op = "add" /\ cat[h].pc = "exists"
          /\ cat[h].name = cAutoLower
          /\ \E i \in DOMAIN cat[h].categories : cat[h].categories[i].name = Auto
    /\ message.text = "Category already exists."
    /\ \A i \in DOMAIN categoriesCol : categoriesCol[i].name # cAutoLower

\* C14 (as claimed): no two persisted categories of the owner have names
\* that are equal but for letter case.
C14_CategoryNamesUnique ==
    \A i, j \in DOMAIN categoriesCol :
        (categoriesCol[i].userId = categoriesCol[j].userId
         /\ SameName(categoriesCol[i].name, categoriesCol[j].name)) => i = j

Docs(col) == {col[i] : i \in DOMAIN col}
\* C15: every step of a handleDeleteCategory call leaves the transactions
\* and the rules as they are; the step in which its deleteDoc returns
\* removes the category document of the call's id and no other; its other
\* steps leave the categories as they are.
C15_DeleteTouchesOneCategory ==
    [][\A h \in DOMAIN cat' :
          (cat'[h].op = "delete" /\ (h \notin DOMAIN cat \/ cat'[h] # cat[h])) =>
              /\ txCol' = txCol
              /\ rulesCol' = rulesCol
              /\ IF h \in DOMAIN cat /\ cat'[h].pc = "done"
                 THEN /\ Docs(categoriesCol') =
                            {d \in Docs(categoriesCol) : d.id # cat[h].id}
                      /\ Len(categoriesCol') = Cardinality(Docs(categoriesCol'))
                 ELSE categoriesCol' = categoriesCol]_vars
\* the category "Auto" was deleted: the transaction tagged "Auto" and the
\* rule for "Auto" are there, and so is the other category
C15_Witness ==
    /\ \E h \in DOMAIN cat : cat[h].op = "delete" /\ cat[h].pc = "done"
    /\ \A i \in DOMAIN categoriesCol : categoriesCol[i].name # Auto
    /\ \E i \in DOMAIN categoriesCol : categoriesCol[i].name = Dining
    /\ \E d \in DOMAIN txCol : txCol[d].category = Auto
    /\ \E i \in DOMAIN rulesCol : rulesCol[i].category = Auto

\* C16: while the report of an import is shown, the run is the last one and
\* has finished, the count of the report is the number of transactions this
\* run wrote, each of which is in the store, and no file is selected; and
\* after the last run has finished, the report is shown until a file is
\* selected again.
C16_ReportCountsWrites ==
    /\ message.text = "Successfully parsed and added new transactions" =>
          /\ runs # <<>> /\ LastRun.outcome = "done"
          /\ message.n = Len(LastRun.written)
          /\ message.n = Cardinality({d \in DOMAIN txCol :
                             \E w \in DOMAIN LastRun.written :
                                 LastRun.written[w].id = txCol[d].id})
          /\ file = NoFile
          /\ ~loading
    /\ (runs # <<>> /\ LastRun.outcome = "done" /\ file = NoFile)
          => message.text = "Successfully parsed and added new transactions"
\* the import of a file of three rows, one of them without description,
\* has reported the two transactions it wrote
C16_Witness ==
    /\ runs # <<>>
    /\ LastRun.outcome = "done"
    /\ LastRun.data = PairFile
    /\ Len(LastRun.data) = 3
    /\ message = Msg("Successfully parsed and added new transactions", 2)
    /\ Len(LastRun.written) = 2
    /\ file = NoFile

\* C17: the step in which the parser reports a failure writes no
\* transaction, ends the run with nothing written, and shows a message with
\* the parser's error text.
C17_ParseFailureWritesNothing ==
    [][(runs # <<>> /\ Len(runs') = Len(runs)
        /\ LastRun.outcome = "running"
        /\ runs'[Len(runs')].outcome = "parseError") =>
           /\ txCol' = txCol
           /\ runs'[Len(runs')].written = <<>>
           /\ message'.text = "Error parsing CSV"
           /\ "error" \in DOMAIN message'
           /\ message'["error"] \in ParserErrors
           /\ loading' = FALSE]_vars
\* after an import that wrote transactions, the import of a file failed in
\* the parser: the store holds what the first import wrote
C17_Witness ==
    /\ Len(runs) = 2
    /\ runs[1].outcome = "done" /\ runs[1].written # <<>>
    /\ runs[2].outcome = "parseError" /\ runs[2].written = <<>>
    /\ Len(txCol) = Len(runs[1].written)
    /\ message = ErrMsg("Error parsing CSV", "NotReadableError")

\* C18 (as claimed): a step that starts in a state in which the session is
\* not authenticated issues no write: it adds, updates or removes no
\* transaction and no rule, and it starts no addDoc or deleteDoc of a
\* category.  (A category write that was issued before the sign-out may
\* still reach the store afterwards: this is not a write issued while
\* unauthenticated.)
C18_NoWriteWhileUnauthenticated ==
    [][~isAuthenticated =>
           /\ txCol' = txCol
           /\ rulesCol' = rulesCol
           /\ \A h \in DOMAIN cat' :
                 h \notin DOMAIN cat => cat'[h].pc \notin {"adding", "deleting"}]_vars

TxFields(d) == [id |-> d.id, date |-> d.date, description |-> d.description,
                amount |-> d.amount, userId |-> d.userId]
\* C19: no step removes a persisted transaction or changes its id, date,
\* description, amount or owner; a step that changes its category is the
\* first step of a recategorization of this transaction to this category.
C19_TransactionLifecycle ==
    [][/\ Len(txCol') >= Len(txCol)
       /\ \A d \in DOMAIN txCol :
             /\ TxFields(txCol'[d]) = TxFields(txCol[d])
             /\ txCol'[d].category # txCol[d].category =>
                   /\ Len(rec') = Len(rec) + 1
                   /\ rec'[Len(rec')].transactionId = txCol[d].id
                   /\ rec'[Len(rec')].newCategory = txCol'[d].category]_vars
\* a transaction this session imported was recategorized, and a category
\* was deleted
C19_Witness ==
    /\ runs # <<>> /\ LastRun.outcome = "done"
    /\ \E w \in DOMAIN LastRun.written :
          /\ txCol[LastRun.written[w].id].category = Auto
          /\ txCol[LastRun.written[w].id].description = dGas
    /\ \E h \in DOMAIN cat : cat[h].op = "delete" /\ cat[h].pc = "done"

\* C20 (as claimed): no two persisted transactions of the owner have the
\* same identity string.
C20_IdentitiesUnique ==
    \A i, j \in DOMAIN txCol :
        (txCol[i].userId = txCol[j].userId
         /\ txIdentifier(txCol[i]) = txIdentifier(txCol[j])) => i = j

\* disabled={!file || loading || !isAuthenticated} of the Process CSV button
ProcessCsvEnabled == file.sel /\ ~loading /\ isAuthenticated
\* C21 (as claimed): while an import run is in progress, loading is true and
\* the Process CSV button is disabled.
C21_TriggerDisabledDuringImport ==
    imp.pc # "idle" => (loading /\ ~ProcessCsvEnabled)

\* C22 (as claimed): whenever loading is true, it is false again later: an
\* import run that has started ends with the Process CSV button released.
C22_LoadingReleased == loading ~> ~loading
====
